---- MODULE Spec2Model ----
(***************************************************************************)
(* Model of the local TTS streaming pipeline (src/src/local/speak.ts):     *)
(* the module state of speak.ts and audio.ts, speakLocal's consumption     *)
(* loop in pool mode and in direct mode, cancelLocalSpeak, initLocalTts,   *)
(* playAudio/tryPlayers/runCommand with the last-working-player cache and  *)
(* the tracked player process, and cleanupFiles.                           *)
(*                                                                         *)
(* JavaScript runs one continuation at a time, so every action is one      *)
(* synchronous segment of the code: from a call or the resumption of an    *)
(* await up to the next await or return.                                   *)
(***************************************************************************)
EXTENDS Integers, Sequences, FiniteSets, TLC

\* ---------------------------------------------------------------- bounds
MaxInv == 2        \* speakLocal invocations in one behaviour
MaxChunks == 2     \* chunks splitText returns for the text of the first invocation
MaxLaterChunks == 1  \* and for the text of a later invocation
MaxPools == 2      \* worker pools createWorkerPool may create
MaxToken == 1      \* bumps of cancelToken

Invs == 1..MaxInv
Chunks == 0..(MaxChunks - 1)
PoolIds == 1..MaxPools
NoPool == 0

\* ------------------------------------------------- playAudio's candidates
Platform == "darwin"

PlatformPlayers(platform) ==
  IF platform = "darwin" THEN <<"afplay", "ffplay">>
  ELSE IF platform = "win32"
    THEN <<"Media.SoundPlayer", "ffplay", "Windows Media Player">>
    ELSE <<"paplay", "aplay", "mpv", "ffplay">>

Players == PlatformPlayers(Platform)
NumPlayers == Len(Players)
PlayerNames == {Players[k] : k \in 1..NumPlayers}
NoPlayer == "none"

\* players.find(p => p.name === lastWorkingPlayer): the index, 0 when absent
FindPlayer(name) ==
  IF name \in PlayerNames
    THEN CHOOSE k \in 1..NumPlayers : Players[k] = name
    ELSE 0

\* A player process is named by the playAudio call that spawned it (the
\* invocation and chunk) and the attempt inside the call: 0 for the cached
\* candidate, k for the k-th candidate of the declared list.
NoProc == <<0, 0, 0>>

VARIABLES
  \* speak.ts module state
  pool,              \* the pool the module references, NoPool for null
  poolReady,
  poolInit,          \* the pool whose readiness chain poolInit holds, NoPool for null
  localModel,        \* TRUE when the in-process model is loaded
  localInit,         \* "null", or the promise: "pending", "true", "false"
  cancelToken,
  \* audio.ts module state
  currentProcess,
  lastWorkingPlayer,
  \* the caller's TtsConfig object
  enabled,
  maxWorkers,
  \* pool objects and the handles enqueue returned
  pools,             \* [PoolIds -> [created, live, ready]]
  tasks,             \* [Invs -> [Chunks -> "none" | "pending" | "resolved" | "rejected"]]
  \* temp files, one per invocation and chunk
  fileState,         \* "none" | "exists" | "deleted"
  delAttempts,       \* unlink calls made on the file
  \* speakLocal invocations and their playAudio calls
  inv,
  calls,
  \* one application of splitText: its argument and what it returned
  split,
  \* calls of cleanupFiles on one list of paths: the list, the files on disk,
  \* the position of the call and the state of its unlink promises
  cleanup,
  \* playAudio called on its own, with or without a notification client
  play,
  \* the plugin: its speak mode, the message it tracks and the speak calls made
  plugin

vars == <<pool, poolReady, poolInit, localModel, localInit, cancelToken,
          currentProcess, lastWorkingPlayer, enabled, maxWorkers, pools, tasks,
          fileState, delAttempts, inv, calls, split, cleanup, play,
          plugin>>

\* what the pipeline of speakLocal and playAudio reads and writes
pipelineVars == <<pool, poolReady, poolInit, localModel, localInit, cancelToken,
                  currentProcess, lastWorkingPlayer, enabled, maxWorkers, pools,
                  tasks, fileState, delAttempts, inv, calls>>

\* what the functions studied on their own read and write
sideVars == <<split, cleanup, play, plugin>>

speakVars == <<pool, poolReady, poolInit, localModel, localInit, cancelToken>>
audioVars == <<currentProcess, lastWorkingPlayer>>
configVars == <<enabled, maxWorkers>>

\* ------------------------------------------------------------ initial state
NoWait == [kind |-> "none", p |-> NoPool]

InitInv ==
  [pc |-> "idle", token |-> 0, n |-> 0, i |-> 0, files |-> <<>>,
   activePool |-> NoPool, wait |-> NoWait, mode |-> "none", result |-> "none",
   error |-> "none", exit |-> "none",
   \* the chunks handed to enqueue, in the order of the calls
   enq |-> <<>>,
   \* observations: the chunks playAudio was called for, and config.enabled
   \* seen false while the invocation was in flight
   playLog |-> <<>>, sawDisabled |-> FALSE]

InitCall ==
  [st |-> "none", k |-> 0, cmd |-> NoPlayer, proc |-> "none", errors |-> <<>>,
   \* observations: the cached candidate returned non-zero; no other call was
   \* in flight or started since this one started; some player returned 0
   \* while this call was in flight
   cachedFailed |-> FALSE, alone |-> TRUE, sawZero |-> FALSE]

NoSplit == [text |-> <<>>, chunks |-> <<>>, done |-> FALSE]

NoCleanup ==
  [files |-> <<>>, disk |-> {}, pc |-> "idle", settled |-> <<>>,
   attempts |-> <<>>, calls |-> 0, errors |-> 0, deleted |-> {},
   result |-> "none"]

\* the functions studied on their own are not in use
NoPlay ==
  [client |-> "absent", st |-> "none", k |-> 0, errors |-> <<>>,
   cachedFailed |-> FALSE, toasts |-> 0, result |-> "none", error |-> "none",
   plays |-> 0]

NoMessage == 0

NoPlugin ==
  [speakOn |-> "message", latestMessageID |-> NoMessage, latestMessageText |-> FALSE,
   lastSpokenMessageID |-> NoMessage, ready |-> FALSE, buffer |-> "",
   skipCommandExecuted |-> FALSE, started |-> FALSE, pending |-> 0,
   speaks |-> {}]

\* the functions studied on their own are not in use
SideIdle ==
  split = NoSplit /\ cleanup = NoCleanup /\ play = NoPlay /\ plugin = NoPlugin

PipelineInit ==
  /\ pool = NoPool
  /\ poolReady = FALSE
  /\ poolInit = NoPool
  /\ localModel = FALSE
  /\ localInit = "null"
  /\ cancelToken = 0
  /\ currentProcess = NoProc
  /\ lastWorkingPlayer = NoPlayer
  /\ enabled \in BOOLEAN
  /\ maxWorkers \in {0, 2}
  /\ pools = [p \in PoolIds |-> [created |-> FALSE, live |-> FALSE, ready |-> "pending"]]
  /\ tasks = [v \in Invs |-> [c \in Chunks |-> "none"]]
  /\ fileState = [v \in Invs |-> [c \in Chunks |-> "none"]]
  /\ delAttempts = [v \in Invs |-> [c \in Chunks |-> 0]]
  /\ inv = [v \in Invs |-> InitInv]
  /\ calls = [v \in Invs |-> [c \in Chunks |-> InitCall]]

Init == PipelineInit /\ SideIdle

\* ------------------------------------------------------------------ helpers
InFlight(v) == inv[v].pc \notin {"idle", "done"}

CallDone(call) == call.st \in {"ok", "failed", "spawnError"}
CallActive(call) == call.st \in {"cached", "loop"}
ActiveCalls == {vc \in Invs \X Chunks : CallActive(calls[vc[1]][vc[2]])}
RunningProcs == {vc \in Invs \X Chunks : calls[vc[1]][vc[2]].proc = "running"}

\* the id of the process the call is waiting for
ProcOf(v, c) == <<v, c, calls[v][c].k>>

\* the first pool id createWorkerPool has not handed out yet, NoPool when the
\* bound is used up
NextPool ==
  IF \E p \in PoolIds : ~pools[p].created
    THEN CHOOSE p \in PoolIds :
           ~pools[p].created /\ \A q \in PoolIds : q < p => pools[q].created
    ELSE NoPool

\* ---------------------------------------------------------- initLocalTts
\* The promise initLocalTts returns: already resolved true ("imm"), the
\* readiness chain of a pool ("pool"), or the model load ("local").
InitWait ==
  IF maxWorkers <= 0
    THEN IF localModel THEN [kind |-> "imm", p |-> NoPool]
                       ELSE [kind |-> "local", p |-> NoPool]
    ELSE IF poolReady /\ pool # NoPool THEN [kind |-> "imm", p |-> NoPool]
         ELSE IF poolInit # NoPool THEN [kind |-> "pool", p |-> poolInit]
         ELSE [kind |-> "pool", p |-> NextPool]

\* initLocalTts needs a pool and the bound on pools is used up
InitBlocked ==
  /\ maxWorkers > 0
  /\ ~(poolReady /\ pool # NoPool)
  /\ poolInit = NoPool
  /\ NextPool = NoPool

\* the synchronous part of initLocalTts: what it writes
InitLocalTtsEffect ==
  /\ ~InitBlocked
  /\ UNCHANGED <<poolReady, localModel>>
  /\ IF maxWorkers <= 0
       THEN /\ localInit' = IF ~localModel /\ localInit = "null" THEN "pending" ELSE localInit
            /\ UNCHANGED <<pool, poolInit, pools>>
       ELSE /\ UNCHANGED localInit
            /\ IF (poolReady /\ pool # NoPool) \/ poolInit # NoPool
                 THEN UNCHANGED <<pool, poolInit, pools>>
                 ELSE /\ pool' = NextPool
                      /\ poolInit' = NextPool
                      /\ pools' = [pools EXCEPT ![NextPool] =
                                     [created |-> TRUE, live |-> TRUE, ready |-> "pending"]]

\* the promise w has settled
WaitSettled(w) ==
  \/ w.kind = "imm"
  \/ w.kind = "pool" /\ pools[w.p].ready # "pending"
  \/ w.kind = "local" /\ localInit \in {"true", "false"}

\* the value the promise w resolved with
WaitValue(w) ==
  \/ w.kind = "imm"
  \/ w.kind = "pool" /\ pools[w.p].ready = "resolved"
  \/ w.kind = "local" /\ localInit = "true"

\* ------------------------------------------------- the caller's environment
\* the invocations in flight have seen config.enabled false
SawDisabled ==
  [v \in Invs |-> IF InFlight(v) THEN [inv[v] EXCEPT !.sawDisabled = TRUE] ELSE inv[v]]

\* a cancelLocalSpeak that drops the pool without shutting it down
ShutdownSkipped(ps, p) == ps

\* line 104: pool.shutdown()
Shutdown(ps, p) == [ps EXCEPT ![p].live = FALSE]

\* a flag that is flipped instead of a counter
TokenFlipped(token) == IF token = 0 THEN 1 ELSE 0

\* line 102: cancelToken += 1
BumpToken(token) == token + 1

\* a cancelLocalSpeak that forgets the readiness promise in every case
PoolInitDropped(init) == NoPool

\* lines 103-109: without a pool, cancelLocalSpeak leaves poolInit as it is
PoolInitKept(init) == init

\* cancelLocalSpeak(), while the token is below max
CancelUpTo(max) ==
  /\ cancelToken < max
  /\ cancelToken' = BumpToken(cancelToken)
  /\ IF pool # NoPool
       THEN /\ pools' = Shutdown(pools, pool)
            /\ pool' = NoPool
            /\ poolReady' = FALSE
            /\ poolInit' = NoPool
       ELSE /\ poolInit' = PoolInitKept(poolInit)
            /\ UNCHANGED <<pools, pool, poolReady>>
  /\ UNCHANGED <<inv, localModel, localInit, audioVars, configVars, tasks, fileState,
                 delAttempts, calls>>

\* cancelLocalSpeak()
CancelLocalSpeak == CancelUpTo(MaxToken)

\* the caller writes config.enabled
SetEnabled(b) ==
  /\ enabled # b
  /\ enabled' = b
  /\ inv' = IF b THEN inv ELSE SawDisabled
  /\ UNCHANGED <<speakVars, audioVars, maxWorkers, pools, tasks, fileState,
                 delAttempts, calls>>

\* initLocalTts(config) called by the plugin itself (start-up, tts command)
InitLocalTts ==
  /\ InitLocalTtsEffect
  /\ <<pool, poolInit, localInit>>' # <<pool, poolInit, localInit>>
  /\ UNCHANGED <<cancelToken, audioVars, configVars, tasks, fileState, delAttempts,
                 inv, calls>>

\* initLocalModel() settles: the model, or null
LocalInitSettle(ok) ==
  /\ localInit = "pending"
  /\ localInit' = IF ok THEN "true" ELSE "false"
  /\ localModel' = ok
  /\ UNCHANGED <<pool, poolReady, poolInit, cancelToken, audioVars, configVars, pools,
                 tasks, fileState, delAttempts, inv, calls>>

\* pool.ready settles and the callback initLocalTts chained on it runs
PoolReadySettle(p, ok) ==
  /\ pools[p].created
  /\ pools[p].ready = "pending"
  /\ pools' = [pools EXCEPT ![p].ready = IF ok THEN "resolved" ELSE "rejected"]
  /\ IF ok
       THEN poolReady' = TRUE /\ UNCHANGED pool
       ELSE poolReady' = FALSE /\ pool' = NoPool
  /\ UNCHANGED <<poolInit, localModel, localInit, cancelToken, audioVars, configVars,
                 tasks, fileState, delAttempts, inv, calls>>

\* a worker finishes the chunk: the handle resolves with the path of the file
\* the worker wrote
TaskResolve(v, c) ==
  /\ InFlight(v)
  /\ tasks[v][c] = "pending"
  /\ inv[v].activePool # NoPool
  /\ pools[inv[v].activePool].live
  /\ pools[inv[v].activePool].ready = "resolved"
  /\ tasks' = [tasks EXCEPT ![v][c] = "resolved"]
  /\ fileState' = [fileState EXCEPT ![v][c] = "exists"]
  /\ UNCHANGED <<speakVars, audioVars, configVars, pools, delAttempts, inv, calls>>

\* the handle rejects: the generation failed, or the pool was shut down
TaskReject(v, c) ==
  /\ InFlight(v)
  /\ tasks[v][c] = "pending"
  /\ tasks' = [tasks EXCEPT ![v][c] = "rejected"]
  /\ UNCHANGED <<speakVars, audioVars, configVars, pools, fileState, delAttempts, inv,
                 calls>>

\* ------------------------------------------------- playAudio / tryPlayers
\* lines 322-324: the index of the cached candidate in the list, 0 for none
CachedIndex ==
  IF lastWorkingPlayer # NoPlayer THEN FindPlayer(lastWorkingPlayer) ELSE 0

\* a tryPlayers that leaves the cache alone when the cached candidate fails
CacheLeftAfterCachedFailure(cache) == cache

\* line 328: the cache after the cached candidate returned a non-zero status
CacheAfterCachedFailure(cache) == NoPlayer

\* a tryPlayers that does not record the candidate that succeeded
CacheLeftAfterSuccess(cache, name) == cache

\* line 337: the cache after candidate name returned status 0 in the loop
CacheAfterSuccess(cache, name) == name

\* line 340: errors after candidate name returned a non-zero status
ErrorsAfterFailure(errors, name) == Append(errors, name)

\* a runCommand that leaves the tracking reference as it is
TrackedLeftAfterExit(tracked, proc) == tracked

\* lines 400-402: the tracking reference after process proc has exited
TrackedAfterExit(tracked, proc) == IF tracked = proc THEN NoProc ELSE tracked

\* runCommand up to its await: Bun.spawn starts the process, or throws and the
\* exception leaves runCommand, tryPlayers and playAudio
Spawned(call, att, name, spawnOk) ==
  IF spawnOk
    THEN [call EXCEPT !.st = IF att = 0 THEN "cached" ELSE "loop",
                      !.k = att, !.cmd = name, !.proc = "running"]
    ELSE [call EXCEPT !.st = "spawnError", !.k = att, !.cmd = name, !.proc = "none"]

\* the record of a settled call once nothing refers to its locals any more
Forgotten(call) == [InitCall EXCEPT !.st = call.st]

\* calls with the call of (v, c) replaced by rec. The other calls note that a
\* call started since they did (start) or that a player returned 0 while they
\* were in flight (zero); when the next call of the same invocation starts,
\* the locals of its settled calls are forgotten.
CallsWith(v, c, rec, start, zero) ==
  [w \in Invs |-> [d \in Chunks |->
     IF w = v /\ d = c THEN rec
     ELSE IF w = v /\ start /\ CallDone(calls[w][d]) THEN Forgotten(calls[w][d])
     ELSE IF calls[w][d].st = "none" THEN calls[w][d]
     ELSE [calls[w][d] EXCEPT !.alone = @ /\ ~start,
                              !.sawZero = @ \/ (zero /\ CallActive(calls[w][d]))]]]

\* playAudio(filePath) up to its first await
PlayAudioStart(v, c, spawnOk) ==
  LET att == IF CachedIndex # 0 THEN 0 ELSE 1
      name == IF CachedIndex # 0 THEN Players[CachedIndex] ELSE Players[1]
      fresh == [InitCall EXCEPT !.alone = (ActiveCalls = {})]
      rec == Spawned(fresh, att, name, spawnOk)
  IN /\ calls' = CallsWith(v, c, rec, TRUE, FALSE)
     /\ currentProcess' = IF spawnOk THEN <<v, c, att>> ELSE currentProcess
     /\ UNCHANGED lastWorkingPlayer

\* cancelAudioPlayback(): kill the tracked process and forget it
CancelAudioPlayback ==
  /\ currentProcess # NoProc
  /\ currentProcess' = NoProc
  /\ calls' = [w \in Invs |-> [d \in Chunks |->
        IF currentProcess = ProcOf(w, d) /\ calls[w][d].proc = "running"
          THEN [calls[w][d] EXCEPT !.proc = "killed"]
          ELSE calls[w][d]]]
  /\ UNCHANGED <<speakVars, lastWorkingPlayer, configVars, pools, tasks, fileState,
                 delAttempts, inv>>

\* The player process of call (v, c) exits with status code (a killed process
\* with a non-zero one): runCommand after `await proc.exited` and tryPlayers up
\* to its next await, its return or its throw
AfterExit(v, c, code, spawnOk) ==
  LET call == calls[v][c]
      zero == code = 0
      cur == TrackedAfterExit(currentProcess, ProcOf(v, c))
      next == IF call.st = "cached" THEN 1 ELSE call.k + 1
      cache == IF call.st = "cached"
                 THEN IF zero THEN lastWorkingPlayer
                              ELSE CacheAfterCachedFailure(lastWorkingPlayer)
                 ELSE IF zero THEN CacheAfterSuccess(lastWorkingPlayer, Players[call.k])
                              ELSE lastWorkingPlayer
      failed == [call EXCEPT
                   !.errors = IF call.st = "loop" THEN ErrorsAfterFailure(@, Players[call.k])
                                                  ELSE @,
                   !.cachedFailed = @ \/ call.st = "cached",
                   !.proc = "none"]
      rec == IF zero
               THEN [call EXCEPT !.st = "ok", !.proc = "none"]
             ELSE IF next <= NumPlayers
               THEN Spawned(failed, next, Players[next], spawnOk)
             ELSE [failed EXCEPT !.st = "failed"]
  IN /\ call.proc \in {"running", "killed"}
     /\ call.proc = "killed" => code # 0
     /\ (zero \/ next > NumPlayers) => spawnOk
     /\ lastWorkingPlayer' = cache
     /\ currentProcess' = IF CallActive(rec) THEN <<v, c, next>> ELSE cur
     /\ calls' = CallsWith(v, c, rec, FALSE, zero)
     /\ UNCHANGED <<speakVars, configVars, pools, tasks, fileState, delAttempts, inv>>

\* ---------------------------------------------------------------- speakLocal
\* a check of the token alone
LoopCheckTokenOnly(r) == r.token = cancelToken

\* lines 139, 151, 177, 185: config still enabled and the token still the
\* captured one
LoopCheck(r) == enabled /\ r.token = cancelToken

\* the promise of speakLocal settles: its locals are gone, the outcome stays
Settled(result, error, why) ==
  [InitInv EXCEPT !.pc = "done", !.result = result, !.error = error, !.exit = why]

\* an enqueue of the first chunk alone
EnqueueFirstOnly(n) == IF n = 0 THEN <<>> ELSE <<0>>

\* lines 170-173: chunks.map calls enqueue for the chunks 0 .. n-1 in turn
EnqueueOrder(n) == [j \in 1..n |-> j - 1]

\* a loop that takes whichever remaining handle has resolved, the latest first
AwaitedTaskAnyReady(v, r) ==
  LET ready == {c \in Chunks : c >= r.i /\ c < r.n /\ tasks[v][c] = "resolved"}
  IN IF ready # {} THEN CHOOSE c \in ready : \A d \in ready : d <= c ELSE r.i

\* line 182: the handle the loop of invocation v awaits in iteration r.i
AwaitedTask(v, r) == r.i

\* an await of playAudio that a rejection of the call does not end
PlayResolvedOnSuccess(v) == calls[v][inv[v].i].st = "ok"

\* a loop that calls playAudio without awaiting it
PlayNotAwaited(v) == TRUE

\* lines 156, 190: `await playAudio(...)` resumes once the call has settled
PlayResolved(v) == CallDone(calls[v][inv[v].i])

\* a loop that does not track the file it is about to play
PushFileSkipped(files, c) == files

\* lines 150, 184: files.push(path)
PushFile(files, c) == Append(files, c)

\* a finally callback that hands no file to cleanupFiles
CleanupNothing(files) == {}

\* lines 162, 196: the files handed to cleanupFiles
CleanupArgument(files) == {files[j] : j \in 1..Len(files)}

\* an early return of speakLocal, lines 113-134 and 168
Return(v, why) ==
  /\ inv' = [inv EXCEPT ![v] = Settled("resolved", "none", why)]
  /\ UNCHANGED <<tasks, fileState, delAttempts, calls>>

\* The loop is left by break, by falling off its end or by a throw; the
\* finally callback (lines 161-163, 195-197) runs cleanupFiles, which calls
\* unlink on every file it is given and swallows the failures (of `failing`);
\* then the promise speakLocal returned settles as the loop did.  fs is the
\* state of the files when the loop is left.  Nothing else reads or writes
\* the files of the invocation, so the three steps are taken as one.
Leave(v, r, result, error, failing, fs) ==
  LET given == CleanupArgument(r.files)
  IN /\ failing \subseteq given
     /\ delAttempts' = [delAttempts EXCEPT ![v] =
                          [c \in Chunks |-> IF c \in given THEN @[c] + 1 ELSE @[c]]]
     /\ fileState' = [fs EXCEPT ![v] =
                        [c \in Chunks |-> IF c \in given \ failing /\ @[c] = "exists"
                                            THEN "deleted" ELSE @[c]]]
     /\ inv' = [inv EXCEPT ![v] = Settled(result, error, "loop")]
     /\ tasks' = [tasks EXCEPT ![v] = [c \in Chunks |-> "none"]]
     /\ calls' = [calls EXCEPT ![v] =
                    [c \in Chunks |-> IF CallActive(@[c]) THEN @[c] ELSE InitCall]]

\* the head of the for loop with r.i the index, lines 138-144 and 176-182: the
\* next await, or the loop is left
LoopTop(v, r, failing) ==
  IF r.i < r.n /\ LoopCheck(r)
    THEN /\ failing = {}
         /\ inv' = [inv EXCEPT ![v] =
                      [r EXCEPT !.pc = IF r.mode = "direct" THEN "awaitGen"
                                                            ELSE "awaitTask"]]
         /\ UNCHANGED <<tasks, fileState, delAttempts, calls>>
    ELSE /\ Leave(v, r, "resolved", "none", failing, fileState)

\* speakLocal(text, config) up to `await initLocalTts(config)`
SpeakLocal(v, blank) ==
  /\ inv[v].pc = "idle"
  /\ IF v = 1 THEN TRUE ELSE inv[v - 1].pc # "idle"
  /\ IF ~enabled \/ blank
       THEN /\ Return(v, IF ~enabled THEN "disabled" ELSE "blank")
            /\ UNCHANGED <<speakVars, pools>>
       ELSE /\ InitLocalTtsEffect
            /\ inv' = [inv EXCEPT ![v] =
                         [@ EXCEPT !.pc = "awaitInit", !.token = cancelToken,
                                   !.wait = InitWait]]
            /\ UNCHANGED <<cancelToken, tasks, fileState, delAttempts, calls>>
  /\ UNCHANGED <<audioVars, configVars>>

\* lines 119-182: from the resumption of `await initLocalTts` to the first
\* await of the loop; n is the number of chunks splitText returns
AfterInit(v, n, failing) ==
  LET r == inv[v]
      direct == maxWorkers <= 0 /\ localModel
      started == [r EXCEPT !.wait = NoWait, !.n = n, !.i = 0,
                           !.mode = IF direct THEN "direct" ELSE "pool",
                           !.activePool = IF direct THEN NoPool ELSE pool]
  IN /\ r.pc = "awaitInit"
     /\ n <= (IF v = 1 THEN MaxChunks ELSE MaxLaterChunks)
     /\ WaitSettled(r.wait)
     /\ IF ~WaitValue(r.wait) THEN
          n = 0 /\ failing = {} /\ Return(v, "notReady")
        ELSE IF r.token # cancelToken THEN
          n = 0 /\ failing = {} /\ Return(v, "superseded")
        ELSE IF n = 0 THEN
          failing = {} /\ Return(v, "noChunks")
        ELSE IF direct THEN
          LoopTop(v, started, failing)
        ELSE IF pool = NoPool THEN
          failing = {} /\ Return(v, "noPool")
        ELSE IF LoopCheck(r)
          THEN /\ failing = {}
               /\ inv' = [inv EXCEPT ![v] = [started EXCEPT !.pc = "awaitTask",
                                                            !.enq = EnqueueOrder(n)]]
               /\ tasks' = [tasks EXCEPT ![v] =
                              [c \in Chunks |->
                                 IF \E j \in 1..Len(EnqueueOrder(n)) : EnqueueOrder(n)[j] = c
                                   THEN "pending" ELSE "none"]]
               /\ UNCHANGED <<fileState, delAttempts, calls>>
          ELSE Leave(v, started, "resolved", "none", failing, fileState)
     /\ UNCHANGED <<speakVars, audioVars, configVars, pools>>

\* lines 150-156 and 184-190: the file is tracked, the checks are made again
\* and playAudio is called, up to its first await
TrackAndPlay(v, r, c, spawnOk, failing, fs) ==
  LET tracked == [r EXCEPT !.files = PushFile(@, c)]
  IN IF LoopCheck(r)
       THEN /\ failing = {}
            /\ inv' = [inv EXCEPT ![v] =
                         [tracked EXCEPT !.pc = "awaitPlay", !.playLog = Append(@, c)]]
            /\ PlayAudioStart(v, c, spawnOk)
            /\ fileState' = fs
            /\ UNCHANGED <<tasks, delAttempts>>
       ELSE /\ spawnOk
            /\ Leave(v, tracked, "resolved", "none", failing, fs)
            /\ UNCHANGED audioVars

\* pool mode, lines 182-190: `await tasks[i]` resumes
AfterTask(v, spawnOk, failing) ==
  LET r == inv[v]
      c == AwaitedTask(v, r)
  IN /\ r.pc = "awaitTask"
     /\ tasks[v][c] \in {"resolved", "rejected"}
     /\ IF tasks[v][c] = "rejected"
          THEN /\ spawnOk
               /\ Leave(v, r, "rejected", "generation", failing, fileState)
               /\ UNCHANGED audioVars
          ELSE TrackAndPlay(v, r, c, spawnOk, failing, fileState)
     /\ UNCHANGED <<speakVars, configVars, pools>>

\* direct mode, lines 144-156: localModel.generate and writeTempWav settle
AfterGen(v, ok, spawnOk, failing) ==
  LET r == inv[v]
  IN /\ r.pc = "awaitGen"
     /\ IF ok
          THEN TrackAndPlay(v, r, r.i, spawnOk, failing,
                            [fileState EXCEPT ![v][r.i] = "exists"])
          ELSE /\ spawnOk
               /\ Leave(v, r, "rejected", "generation", failing, fileState)
               /\ UNCHANGED audioVars
     /\ UNCHANGED <<speakVars, configVars, pools>>

\* lines 156-158 and 190-192: `await playAudio` resumes, then the loop head
AfterPlay(v, failing) ==
  LET r == inv[v]
      call == calls[v][r.i]
  IN /\ r.pc = "awaitPlay"
     /\ PlayResolved(v)
     /\ IF call.st \in {"failed", "spawnError"}
          THEN Leave(v, r, "rejected", "playback", failing, fileState)
          ELSE LoopTop(v, [r EXCEPT !.i = @ + 1], failing)
     /\ UNCHANGED <<speakVars, audioVars, configVars, pools>>

\* ------------------------------------------------------------ specification
Next ==
  \/ CancelLocalSpeak /\ UNCHANGED sideVars
  \/ \E b \in BOOLEAN : SetEnabled(b) /\ UNCHANGED sideVars
  \/ InitLocalTts /\ UNCHANGED sideVars
  \/ \E ok \in BOOLEAN : LocalInitSettle(ok) /\ UNCHANGED sideVars
  \/ \E p \in PoolIds, ok \in BOOLEAN : PoolReadySettle(p, ok) /\ UNCHANGED sideVars
  \/ \E v \in Invs, c \in Chunks : TaskResolve(v, c) /\ UNCHANGED sideVars
  \/ \E v \in Invs, c \in Chunks : TaskReject(v, c) /\ UNCHANGED sideVars
  \/ CancelAudioPlayback /\ UNCHANGED sideVars
  \/ \E v \in Invs, c \in Chunks, code \in {0, 1}, spawnOk \in BOOLEAN :
        AfterExit(v, c, code, spawnOk) /\ UNCHANGED sideVars
  \/ \E v \in Invs, blank \in BOOLEAN : SpeakLocal(v, blank) /\ UNCHANGED sideVars
  \/ \E v \in Invs, n \in 0..MaxChunks, failing \in SUBSET Chunks :
        AfterInit(v, n, failing) /\ UNCHANGED sideVars
  \/ \E v \in Invs, spawnOk \in BOOLEAN, failing \in SUBSET Chunks :
        AfterTask(v, spawnOk, failing) /\ UNCHANGED sideVars
  \/ \E v \in Invs, ok \in BOOLEAN, spawnOk \in BOOLEAN, failing \in SUBSET Chunks :
        AfterGen(v, ok, spawnOk, failing) /\ UNCHANGED sideVars
  \/ \E v \in Invs, failing \in SUBSET Chunks :
        AfterPlay(v, failing) /\ UNCHANGED sideVars

Spec == Init /\ [][Next]_vars

\* ------------------------------------------------------------- completion
\* The calls are followed to their end under a bound on the chunks the calls
\* in flight hold together, with every unlink succeeding.
MaxLiveChunks == 2

RECURSIVE ChunksHeld(_)
ChunksHeld(callers) ==
  IF callers = {} THEN 0
  ELSE LET v == CHOOSE w \in callers : TRUE
       IN inv[v].n + ChunksHeld(callers \ {v})

\* AfterInit within the bound
LiveAfterInit(v, n) ==
  /\ n + ChunksHeld(Invs \ {v}) <= MaxLiveChunks
  /\ AfterInit(v, n, {})

\* Scheduling.  The event loop resumes every continuation whose promise has
\* settled; backend initialisation settles; every handle of a chunk settles,
\* also after the shutdown of its pool; every player process exits.  Nothing
\* is assumed of the caller: it may cancel, disable and enable at any time, or
\* never.
Resumes ==
  \/ \E v \in Invs, n \in 0..MaxChunks : LiveAfterInit(v, n)
  \/ \E v \in Invs, spawnOk \in BOOLEAN : AfterTask(v, spawnOk, {})
  \/ \E v \in Invs, ok \in BOOLEAN, spawnOk \in BOOLEAN : AfterGen(v, ok, spawnOk, {})
  \/ \E v \in Invs : AfterPlay(v, {})

InitSettles ==
  \/ \E ok \in BOOLEAN : LocalInitSettle(ok)
  \/ \E p \in PoolIds, ok \in BOOLEAN : PoolReadySettle(p, ok)

HandleSettles ==
  \E v \in Invs, c \in Chunks : TaskResolve(v, c) \/ TaskReject(v, c)

PlayerExits ==
  \E v \in Invs, c \in Chunks, code \in {0, 1}, spawnOk \in BOOLEAN :
    AfterExit(v, c, code, spawnOk)

Fairness ==
  /\ WF_vars(Resumes /\ UNCHANGED sideVars)
  /\ WF_vars(InitSettles /\ UNCHANGED sideVars)
  /\ WF_vars(HandleSettles /\ UNCHANGED sideVars)
  /\ WF_vars(PlayerExits /\ UNCHANGED sideVars)

LiveNext ==
  \/ CancelLocalSpeak /\ UNCHANGED sideVars
  \/ \E b \in BOOLEAN : SetEnabled(b) /\ UNCHANGED sideVars
  \/ InitLocalTts /\ UNCHANGED sideVars
  \/ \E ok \in BOOLEAN : LocalInitSettle(ok) /\ UNCHANGED sideVars
  \/ \E p \in PoolIds, ok \in BOOLEAN : PoolReadySettle(p, ok) /\ UNCHANGED sideVars
  \/ \E v \in Invs, c \in Chunks : TaskResolve(v, c) /\ UNCHANGED sideVars
  \/ \E v \in Invs, c \in Chunks : TaskReject(v, c) /\ UNCHANGED sideVars
  \/ CancelAudioPlayback /\ UNCHANGED sideVars
  \/ \E v \in Invs, c \in Chunks, code \in {0, 1}, spawnOk \in BOOLEAN :
        AfterExit(v, c, code, spawnOk) /\ UNCHANGED sideVars
  \/ \E v \in Invs, blank \in BOOLEAN : SpeakLocal(v, blank) /\ UNCHANGED sideVars
  \/ \E v \in Invs, n \in 0..MaxChunks : LiveAfterInit(v, n) /\ UNCHANGED sideVars
  \/ \E v \in Invs, spawnOk \in BOOLEAN :
        AfterTask(v, spawnOk, {}) /\ UNCHANGED sideVars
  \/ \E v \in Invs, ok \in BOOLEAN, spawnOk \in BOOLEAN :
        AfterGen(v, ok, spawnOk, {}) /\ UNCHANGED sideVars
  \/ \E v \in Invs : AfterPlay(v, {}) /\ UNCHANGED sideVars

LiveSpec == Init /\ [][LiveNext]_vars /\ Fairness

\* ---------------------------------------------------------------- the token
\* One speakLocal call of at most one chunk, and cancelLocalSpeak called up
\* to MaxBumps times before, during and after it.
MaxBumps == 3

First == 1

TokenNext ==
  \/ CancelUpTo(MaxBumps) /\ UNCHANGED sideVars
  \/ \E b \in BOOLEAN : SetEnabled(b) /\ UNCHANGED sideVars
  \/ InitLocalTts /\ UNCHANGED sideVars
  \/ \E ok \in BOOLEAN : LocalInitSettle(ok) /\ UNCHANGED sideVars
  \/ \E p \in PoolIds, ok \in BOOLEAN : PoolReadySettle(p, ok) /\ UNCHANGED sideVars
  \/ \E c \in Chunks : TaskResolve(First, c) /\ UNCHANGED sideVars
  \/ \E c \in Chunks : TaskReject(First, c) /\ UNCHANGED sideVars
  \/ CancelAudioPlayback /\ UNCHANGED sideVars
  \/ \E c \in Chunks, code \in {0, 1} :
        AfterExit(First, c, code, TRUE) /\ UNCHANGED sideVars
  \/ \E blank \in BOOLEAN : SpeakLocal(First, blank) /\ UNCHANGED sideVars
  \/ \E n \in 0..1 : AfterInit(First, n, {}) /\ UNCHANGED sideVars
  \/ AfterTask(First, TRUE, {}) /\ UNCHANGED sideVars
  \/ \E ok \in BOOLEAN : AfterGen(First, ok, TRUE, {}) /\ UNCHANGED sideVars
  \/ AfterPlay(First, {}) /\ UNCHANGED sideVars

TokenSpec == Init /\ [][TokenNext]_vars

\* ---------------------------------------------------------------- splitText
\* A string is a sequence of runs [c, n]: n >= 1 characters of class c, no two
\* neighbouring runs of the same class.  The classes are those the regular
\* expressions of splitText tell apart: "w" a character that is neither
\* white space nor one of . ! ?, "p" one of . ! ?, "s" a blank, "n" a newline.
MaxRuns == 5       \* runs in the argument of splitText

maxLength == 240

Run(c, n) == [c |-> c, n |-> n]

RunSet ==
  {Run("w", 1), Run("w", 119), Run("w", 120), Run("w", 241),
   Run("p", 1), Run("s", 1), Run("n", 1)}

RECURSIVE StrLen(_)
StrLen(str) == IF str = <<>> THEN 0 ELSE str[1].n + StrLen(Tail(str))

\* str + t
Concat(str, t) ==
  IF str = <<>> THEN t
  ELSE IF t = <<>> THEN str
  ELSE IF str[Len(str)].c = t[1].c
    THEN SubSeq(str, 1, Len(str) - 1)
           \o <<Run(t[1].c, str[Len(str)].n + t[1].n)>> \o Tail(t)
    ELSE str \o t

RECURSIVE Canon(_)
Canon(raw) == IF raw = <<>> THEN <<>> ELSE Concat(<<raw[1]>>, Canon(Tail(raw)))

\* the classes of \s, of [^.!?\n] and of [.!?\n]
Space == {"s", "n"}
Plain == {"w", "s"}
Stop == {"p", "n"}

IsSpace(r) == r.c \in Space

\* the number of leading runs of str whose class is in classes
RECURSIVE Lead(_, _)
Lead(str, classes) ==
  IF str # <<>> /\ str[1].c \in classes THEN 1 + Lead(Tail(str), classes) ELSE 0

Drop(str, k) == SubSeq(str, k + 1, Len(str))

\* String.prototype.trim
RECURSIVE Trim(_)
Trim(str) ==
  IF str = <<>> THEN <<>>
  ELSE IF IsSpace(str[1]) THEN Trim(Tail(str))
  ELSE IF IsSpace(str[Len(str)]) THEN Trim(SubSeq(str, 1, Len(str) - 1))
  ELSE str

\* line 202: text.match(/[^.!?\n]+[.!?\n]*|[\n]+/g), the matches from left to
\* right; a character at which neither alternative matches is passed over
RECURSIVE Matches(_)
Matches(str) ==
  IF str = <<>> THEN <<>>
  ELSE IF str[1].c \in Plain
    THEN LET a == Lead(str, Plain)
             b == Lead(Drop(str, a), Stop)
         IN <<SubSeq(str, 1, a + b)>> \o Matches(Drop(str, a + b))
  ELSE IF str[1].c = "n"
    THEN <<<<str[1]>>>> \o Matches(Tail(str))
  ELSE Matches(Tail(str))

\* line 202: the parts, `|| [text]` when there is no match
Parts(text) == IF Matches(text) = <<>> THEN <<text>> ELSE Matches(text)

\* line 213: trimmed.split(/\s+/), and line 217: the empty words passed over
RECURSIVE Words(_)
Words(str) ==
  IF str = <<>> THEN <<>>
  ELSE IF IsSpace(str[1]) THEN Words(Tail(str))
  ELSE LET k == Lead(str, {"w", "p"})
       IN <<SubSeq(str, 1, k)>> \o Words(Drop(str, k))

\* a test that forgets the blank the join adds
FitsWithoutBlank(current, word) == StrLen(current) + StrLen(word) <= maxLength

\* line 222: current.length + word.length + 1 <= maxLength
Fits(current, word) == StrLen(current) + StrLen(word) + 1 <= maxLength

\* line 223: `${current} ${word}`
Join(current, word) == Concat(Concat(current, <<Run("s", 1)>>), word)

\* lines 216-232: the words packed into chunks, current the running buffer
RECURSIVE Pack(_, _)
Pack(words, current) ==
  IF words = <<>>
    THEN IF current # <<>> THEN <<current>> ELSE <<>>
  ELSE IF current = <<>> THEN Pack(Tail(words), words[1])
  ELSE IF Fits(current, words[1]) THEN Pack(Tail(words), Join(current, words[1]))
  ELSE <<current>> \o Pack(Tail(words), words[1])

\* a test that sends a part of exactly the limit to the word loop
BelowLimit(trimmed) == StrLen(trimmed) < maxLength

\* line 208: trimmed.length <= maxLength
WithinLimit(trimmed) == StrLen(trimmed) <= maxLength

\* lines 205-233: the chunks of one part
PartChunks(part) ==
  LET trimmed == Trim(part)
  IN IF trimmed = <<>> THEN <<>>
     ELSE IF WithinLimit(trimmed) THEN <<trimmed>>
     ELSE Pack(Words(trimmed), <<>>)

RECURSIVE ChunksOf(_)
ChunksOf(parts) ==
  IF parts = <<>> THEN <<>> ELSE PartChunks(parts[1]) \o ChunksOf(Tail(parts))

\* splitText(text)
SplitText(text) == ChunksOf(Parts(text))

RECURSIVE RawTexts(_)
RawTexts(k) ==
  IF k = 0 THEN {<<>>}
  ELSE LET shorter == RawTexts(k - 1)
       IN shorter \cup {Append(raw, r) : raw \in shorter, r \in RunSet}

Texts == {Canon(raw) : raw \in RawTexts(MaxRuns)}

SplitInit ==
  /\ PipelineInit /\ ~enabled /\ maxWorkers = 2
  /\ cleanup = NoCleanup /\ play = NoPlay /\ plugin = NoPlugin
  /\ split \in {[NoSplit EXCEPT !.text = t] : t \in Texts}

\* splitText is applied to the text
ApplySplit ==
  /\ ~split.done
  /\ split' = [split EXCEPT !.chunks = SplitText(split.text), !.done = TRUE]
  /\ UNCHANGED <<pipelineVars, cleanup, play, plugin>>

SplitNext == ApplySplit

SplitSpec == SplitInit /\ [][SplitNext]_vars

\* ------------------------------------------------------------- cleanupFiles
MaxFiles == 3      \* paths in the list given to cleanupFiles
MaxPaths == 2      \* distinct paths
MaxCleanups == 2   \* calls of cleanupFiles on the list

Paths == 1..MaxPaths

FileLists == UNION {[1..k -> Paths] : k \in 0..MaxFiles}

\* an unlink promise without a handler for its rejection
SwallowSkipped(outcome) == outcome

\* line 240: unlink(file).catch(() => {}), fulfilled whatever unlink did
Swallow(outcome) == "fulfilled"

CleanupInit ==
  /\ PipelineInit /\ ~enabled /\ maxWorkers = 2
  /\ split = NoSplit /\ play = NoPlay /\ plugin = NoPlugin
  /\ \E files \in FileLists, disk \in SUBSET Paths :
       cleanup = [NoCleanup EXCEPT
                    !.files = files, !.disk = disk,
                    !.settled = [i \in 1..Len(files) |-> "none"],
                    !.attempts = [i \in 1..Len(files) |-> 0]]

\* lines 238-240: cleanupFiles(files) up to its await: an empty list returns
\* at once, otherwise files.map has started one unlink per entry
CleanupFiles ==
  /\ cleanup.pc \in {"idle", "returned"}
  /\ cleanup.calls < MaxCleanups
  /\ \A i \in 1..Len(cleanup.files) : cleanup.settled[i] # "pending"
  /\ IF cleanup.files = <<>>
       THEN cleanup' = [cleanup EXCEPT !.pc = "returned", !.result = "resolved",
                                       !.calls = @ + 1]
       ELSE cleanup' = [cleanup EXCEPT
                          !.pc = "awaiting", !.result = "none", !.calls = @ + 1,
                          !.attempts = [i \in 1..Len(cleanup.files) |-> @[i] + 1],
                          !.settled = [i \in 1..Len(cleanup.files) |-> "pending"]]
  /\ UNCHANGED <<pipelineVars, split, play, plugin>>

\* the unlink of entry i settles: it can succeed only when the file exists
UnlinkSettle(i, ok) ==
  /\ i \in 1..Len(cleanup.files)
  /\ cleanup.settled[i] = "pending"
  /\ ok => cleanup.files[i] \in cleanup.disk
  /\ cleanup' =
       IF ok
         THEN [cleanup EXCEPT !.disk = @ \ {cleanup.files[i]},
                              !.deleted = @ \cup {cleanup.files[i]},
                              !.settled[i] = Swallow("fulfilled")]
         ELSE [cleanup EXCEPT !.errors = @ + 1,
                              !.settled[i] = Swallow("rejected")]
  /\ UNCHANGED <<pipelineVars, split, play, plugin>>

\* line 240: await Promise.all(...) ends: rejected as soon as one of its
\* promises is rejected, fulfilled once all of them are
CleanupReturn ==
  /\ cleanup.pc = "awaiting"
  /\ LET states == {cleanup.settled[i] : i \in 1..Len(cleanup.files)}
     IN \/ /\ "rejected" \in states
           /\ cleanup' = [cleanup EXCEPT !.pc = "returned", !.result = "rejected"]
        \/ /\ states = {"fulfilled"}
           /\ cleanup' = [cleanup EXCEPT !.pc = "returned", !.result = "resolved"]
  /\ UNCHANGED <<pipelineVars, split, play, plugin>>

CleanupNext ==
  \/ CleanupFiles
  \/ \E i \in 1..MaxFiles, ok \in BOOLEAN : UnlinkSettle(i, ok)
  \/ CleanupReturn

CleanupSpec == CleanupInit /\ [][CleanupNext]_vars

\* ------------------------------------------- playAudio with a toast client
MaxPlays == 3      \* playAudio calls, one after the other

\* the client argument: none, an object without tui, one whose showToast
\* resolves, one whose showToast rejects, one whose showToast throws at once
Clients == {"absent", "noTui", "ok", "rejects", "throws"}

\* line 345: client?.tui
HasTui(client) == client \in {"ok", "rejects", "throws"}

\* a toast block without try/catch: the exception of showToast leaves tryPlayers
AfterToastEscaping(outcome) ==
  IF outcome = "rejected" THEN "toastError" ELSE "allFailed"

\* lines 346-359: the exception of showToast is ignored, and then
\* throw new Error("All audio players failed: ...")
AfterToast(outcome) == "allFailed"

playOthers == <<speakVars, configVars, pools, tasks, fileState, delAttempts, inv,
                calls, split, cleanup, plugin>>

PlayInit ==
  /\ PipelineInit /\ ~enabled /\ maxWorkers = 2
  /\ split = NoSplit /\ cleanup = NoCleanup /\ plugin = NoPlugin
  /\ play = NoPlay

\* runCommand up to its await for attempt att of the call in rec
DirectSpawned(rec, att, spawnOk) ==
  IF spawnOk
    THEN [rec EXCEPT !.st = IF att = 0 THEN "cached" ELSE "loop", !.k = att]
    ELSE [rec EXCEPT !.st = "spawnError", !.k = att, !.result = "rejected",
                     !.error = "spawn"]

\* lines 343-359 up to the await of showToast, or to the throw
AllFailed(rec) ==
  IF ~HasTui(rec.client)
    THEN [rec EXCEPT !.st = "failed", !.result = "rejected",
                     !.error = "allFailed"]
  ELSE IF rec.client = "throws"
    THEN [rec EXCEPT !.st = "failed", !.result = "rejected", !.toasts = @ + 1,
                     !.error = AfterToast("rejected")]
    ELSE [rec EXCEPT !.st = "toast", !.toasts = @ + 1]

\* playAudio(filePath, client) up to its first await
DirectPlayAudio(client, spawnOk) ==
  LET att == IF CachedIndex # 0 THEN 0 ELSE 1
      fresh == [NoPlay EXCEPT !.client = client, !.plays = play.plays + 1]
  IN /\ play.st \in {"none", "ok", "failed", "spawnError"}
     /\ play.plays < MaxPlays
     /\ play' = DirectSpawned(fresh, att, spawnOk)
     /\ currentProcess' = IF spawnOk THEN <<0, play.plays + 1, att>>
                                     ELSE currentProcess
     /\ UNCHANGED <<lastWorkingPlayer, playOthers>>

\* the player process exits with status code: runCommand after
\* `await proc.exited` and tryPlayers up to its next await, return or throw
DirectExit(code, spawnOk) ==
  LET zero == code = 0
      next == IF play.st = "cached" THEN 1 ELSE play.k + 1
      cur == TrackedAfterExit(currentProcess, <<0, play.plays, play.k>>)
      failed == [play EXCEPT
                   !.errors = IF play.st = "loop"
                                THEN ErrorsAfterFailure(@, Players[play.k]) ELSE @,
                   !.cachedFailed = @ \/ play.st = "cached"]
      rec == IF zero THEN [play EXCEPT !.st = "ok", !.result = "resolved"]
             ELSE IF next <= NumPlayers THEN DirectSpawned(failed, next, spawnOk)
             ELSE AllFailed(failed)
  IN /\ play.st \in {"cached", "loop"}
     /\ (zero \/ next > NumPlayers) => spawnOk
     /\ lastWorkingPlayer' =
          IF play.st = "cached"
            THEN IF zero THEN lastWorkingPlayer
                         ELSE CacheAfterCachedFailure(lastWorkingPlayer)
            ELSE IF zero THEN CacheAfterSuccess(lastWorkingPlayer, Players[play.k])
                         ELSE lastWorkingPlayer
     /\ currentProcess' = IF rec.st \in {"cached", "loop"}
                            THEN <<0, play.plays, next>> ELSE cur
     /\ play' = rec
     /\ UNCHANGED playOthers

\* the promise of showToast settles: lines 347-359 after the await
ToastSettle ==
  /\ play.st = "toast"
  /\ LET outcome == IF play.client = "ok" THEN "fulfilled" ELSE "rejected"
     IN play' = [play EXCEPT !.st = "failed", !.result = "rejected",
                             !.error = AfterToast(outcome)]
  /\ UNCHANGED <<audioVars, playOthers>>

PlayNext ==
  \/ \E client \in Clients, spawnOk \in BOOLEAN : DirectPlayAudio(client, spawnOk)
  \/ \E code \in {0, 1}, spawnOk \in BOOLEAN : DirectExit(code, spawnOk)
  \/ ToastSettle

PlaySpec == PlayInit /\ [][PlayNext]_vars

\* --------------------------------------------------------------- the plugin
MaxMsg == 2        \* assistant messages
MaxPending == 1    \* applyTtsCommand calls waiting for initTts at a time

Messages == 1..MaxMsg

\* promptState.buffer: empty, a /tts command without arguments, other text
Buffers == {"", "/tts", "hi"}

\* the arguments of a tts command: on, off, or none (toggle)
TtsArgs == {"on", "off", ""}

pluginOthers == <<speakVars, audioVars, maxWorkers, pools, tasks, fileState,
                  delAttempts, inv, calls, split, cleanup, play>>

PluginInit ==
  /\ PipelineInit /\ ~enabled /\ maxWorkers = 2
  /\ split = NoSplit /\ cleanup = NoCleanup /\ play = NoPlay
  /\ \E mode \in {"message", "idle"} : plugin = [NoPlugin EXCEPT !.speakOn = mode]

\* part_001 lines 402-438, speakText(messageID, text) up to its await of
\* speak, called because of `by` while config.enabled is on; clean tells
\* whether the cleaned text is non-empty. The plugin record it leaves.
SpeakText(p, on, messageID, clean, by) ==
  IF p.lastSpokenMessageID = messageID THEN p
  ELSE IF ~on THEN [p EXCEPT !.ready = FALSE]
  ELSE IF ~p.ready THEN p
  ELSE IF ~clean THEN [p EXCEPT !.lastSpokenMessageID = messageID]
  ELSE [p EXCEPT !.lastSpokenMessageID = messageID,
                 !.speaks = @ \cup {[msg |-> messageID, by |-> by]}]

\* lines 361-369: config.enabled after a tts command with arguments args
EnabledAfter(args) ==
  IF args = "on" THEN TRUE ELSE IF args = "off" THEN FALSE ELSE ~enabled

\* lines 360-381: applyTtsCommand(args) up to `await initTts(config)`; when
\* the command disables, cancelTts and on to the toast
ApplyTtsCommand(p, args) ==
  /\ EnabledAfter(args) => p.pending < MaxPending
  /\ enabled' = EnabledAfter(args)
  /\ plugin' = IF EnabledAfter(args) THEN [p EXCEPT !.pending = @ + 1]
                                     ELSE [p EXCEPT !.ready = FALSE]

\* lines 381-398: applyTtsCommand after `await initTts(config)`, which
\* returned ready (true at once when the backend was ready): speak the latest message if it was not spoken yet
ApplyContinue(ready, clean) ==
  /\ plugin.pending > 0
  /\ LET p == [plugin EXCEPT !.pending = @ - 1, !.ready = @ \/ ready]
     IN plugin' =
          IF /\ enabled /\ p.latestMessageID # NoMessage /\ p.latestMessageText
             /\ p.lastSpokenMessageID # p.latestMessageID
            THEN SpeakText(p, enabled, p.latestMessageID, clean, "command")
            ELSE p
  /\ UNCHANGED <<enabled, pluginOthers>>

\* lines 303-305: the background initTts of the plugin, five seconds after
\* its start, has returned ready
StartupInit(ready) ==
  /\ ~plugin.started
  /\ plugin' = [plugin EXCEPT !.started = TRUE, !.ready = @ \/ ready]
  /\ UNCHANGED <<enabled, pluginOthers>>

\* lines 449-456: event message.part.updated for a text part of message m
PartUpdated(m, hasText) ==
  /\ plugin' = [plugin EXCEPT !.latestMessageID = m, !.latestMessageText = hasText]
  /\ UNCHANGED <<enabled, pluginOthers>>

\* lines 458-461: event tui.prompt.append, b the buffer after it
PromptAppend(b) ==
  /\ b # "" /\ b # plugin.buffer
  /\ plugin' = [plugin EXCEPT !.buffer = b]
  /\ UNCHANGED <<enabled, pluginOthers>>

\* lines 463-487: event tui.command.execute
TuiCommand(command, args) ==
  /\ \/ /\ command = "prompt.clear" /\ args = ""
        /\ plugin.buffer # ""
        /\ plugin' = [plugin EXCEPT !.buffer = ""]
        /\ UNCHANGED enabled
     \/ /\ command = "prompt.submit" /\ args = ""
        /\ IF plugin.buffer = "/tts"
             THEN ApplyTtsCommand([plugin EXCEPT !.buffer = ""], "")
             ELSE /\ plugin.buffer # ""
                  /\ plugin' = [plugin EXCEPT !.buffer = ""]
                  /\ UNCHANGED enabled
     \/ /\ command = "tts"
        /\ ApplyTtsCommand([plugin EXCEPT !.skipCommandExecuted = TRUE], args)
  /\ UNCHANGED pluginOthers

\* lines 489-498: event message.updated for message m, completed telling
\* whether it is an assistant message that has completed
MessageUpdated(m, completed, clean) ==
  /\ plugin' =
       IF /\ plugin.speakOn = "message" /\ completed
          /\ plugin.latestMessageID = m /\ plugin.latestMessageText
         THEN SpeakText(plugin, enabled, m, clean, "message.updated")
         ELSE plugin
  /\ plugin' # plugin
  /\ UNCHANGED <<enabled, pluginOthers>>

\* lines 500-506: event session.idle
SessionIdle(clean) ==
  /\ plugin' =
       IF /\ plugin.speakOn = "idle"
          /\ plugin.latestMessageID # NoMessage /\ plugin.latestMessageText
         THEN SpeakText(plugin, enabled, plugin.latestMessageID, clean, "session.idle")
         ELSE plugin
  /\ plugin' # plugin
  /\ UNCHANGED <<enabled, pluginOthers>>

\* lines 508-520: event command.executed for a command whose name starts
\* with tts
CommandExecuted(args) ==
  /\ IF plugin.skipCommandExecuted
       THEN /\ plugin' = [plugin EXCEPT !.skipCommandExecuted = FALSE]
            /\ UNCHANGED enabled
       ELSE ApplyTtsCommand(plugin, args)
  /\ UNCHANGED pluginOthers

PluginNext ==
  \/ \E ready \in BOOLEAN : StartupInit(ready)
  \/ \E ready \in BOOLEAN, clean \in BOOLEAN : ApplyContinue(ready, clean)
  \/ \E m \in Messages, hasText \in BOOLEAN : PartUpdated(m, hasText)
  \/ \E b \in Buffers : PromptAppend(b)
  \/ \E command \in {"prompt.clear", "prompt.submit", "tts"}, args \in TtsArgs :
        TuiCommand(command, args)
  \/ \E m \in Messages, completed \in BOOLEAN, clean \in BOOLEAN :
        MessageUpdated(m, completed, clean)
  \/ \E clean \in BOOLEAN : SessionIdle(clean)
  \/ \E args \in TtsArgs : CommandExecuted(args)

PluginSpec == PluginInit /\ [][PluginNext]_vars

\* ------------------------------------------------------------------- claims
Range(s) == {s[j] : j \in 1..Len(s)}

\* the step in which the promise of invocation v settles after its loop ran or
\* its readiness wait ended
Ends(v) == InFlight(v) /\ inv'[v].pc = "done"

\* the step in which playAudio is called for chunk c of invocation v
StartsPlay(v, c) == calls[v][c].st = "none" /\ calls'[v][c].st # "none"

\* invocation v was neither cancelled nor disabled up to now
Undisturbed(v) == inv[v].token = cancelToken /\ enabled /\ ~inv[v].sawDisabled

\* C1: in pool mode the chunks playAudio is called for are always 0, 1, 2, ...
\* in index order, whatever the order in which the enqueued tasks complete;
\* and an invocation that is not cancelled, stays enabled and ends without a
\* generation or playback failure has called playAudio exactly once per chunk,
\* for the chunks 0 .. N-1 in that order.
C1_PoolPlaysInIndexOrder ==
  /\ [](\A v \in Invs :
          inv[v].mode = "pool" =>
            /\ Len(inv[v].playLog) <= inv[v].n
            /\ \A j \in 1..Len(inv[v].playLog) : inv[v].playLog[j] = j - 1)
  /\ [][\A v \in Invs :
          (Ends(v) /\ inv[v].mode = "pool" /\ Undisturbed(v)
             /\ inv'[v].result = "resolved")
          => inv[v].playLog = [j \in 1..inv[v].n |-> j - 1]]_vars

\* the second chunk is generated before the first, and still played after it
C1_Witness ==
  \E v \in Invs :
    /\ inv[v].mode = "pool" /\ inv[v].n = 2 /\ Undisturbed(v)
    /\ inv[v].playLog = <<0, 1>>
    /\ calls[v][1].st = "ok"

\* C2: within one invocation, pool mode or direct mode, at most one playAudio
\* call is in progress, and a call for a later chunk has started only if the
\* calls for the chunks before it have settled (resolved or rejected).
C2_PlaysSequential ==
  \A v \in Invs :
    /\ Cardinality({c \in Chunks : CallActive(calls[v][c])}) <= 1
    /\ \A c, d \in Chunks :
         (c < d /\ calls[v][d].st # "none") => CallDone(calls[v][c])

\* the call for chunk 1 is in progress after the call for chunk 0 resolved
C2_Witness ==
  \E v \in Invs : CallActive(calls[v][1]) /\ calls[v][0].st = "ok"

\* C3: at every moment at most one player process is running and at most one
\* playAudio call is in flight, over all speakLocal invocations.
C3_OnePlayerAtATime ==
  /\ Cardinality(RunningProcs) <= 1
  /\ Cardinality(ActiveCalls) <= 1

\* C4: once the token an invocation captured has been bumped before any of its
\* chunks started playing, the invocation starts no playAudio call, and when
\* it ends the deletion of every file generated for its chunks was attempted.
C4_CancelBeforePlay ==
  [][\A v \in Invs :
       (InFlight(v) /\ inv[v].token # cancelToken /\ inv[v].playLog = <<>>)
       => /\ \A c \in Chunks : ~StartsPlay(v, c)
          /\ Ends(v) =>
               \A c \in Chunks : fileState'[v][c] # "none" => delAttempts'[v][c] >= 1
    ]_vars

\* C5: once an invocation has ended, the deletion of every file that was
\* produced for one of its chunks has been attempted, consumed by the loop or
\* not.
C5_ProducedFilesDeleted ==
  \A v \in Invs :
    inv[v].pc = "done" =>
      \A c \in Chunks : fileState[v][c] # "none" => delAttempts[v][c] >= 1

\* C6: unlink is called at most once on a file, and only when the invocation
\* has ended and no playAudio call for the chunk is in progress; when the
\* invocation ends, unlink is called exactly once on every file it tracked
\* and on the file of every chunk it called playAudio for.
C6_DeletedOnceAfterPlay ==
  /\ [](\A v \in Invs, c \in Chunks :
          /\ delAttempts[v][c] <= 1
          /\ delAttempts[v][c] >= 1 =>
               inv[v].pc = "done" /\ ~CallActive(calls[v][c]))
  /\ [][\A v \in Invs :
          Ends(v) =>
            \A c \in Range(inv[v].files) \cup Range(inv[v].playLog) :
              /\ ~CallActive(calls[v][c])
              /\ delAttempts[v][c] = 0
              /\ delAttempts'[v][c] = 1]_vars

\* both files of an invocation were played and then deleted, once each
C6_Witness ==
  \E v \in Invs :
    /\ inv[v].pc = "done" /\ inv[v].result = "resolved"
    /\ \A c \in {0, 1} : delAttempts[v][c] = 1 /\ fileState[v][c] = "deleted"

\* C7: starting a speakLocal bumps the token, so an earlier invocation still
\* in flight no longer holds the current token once a later one is in flight.
C7_NewSpeakSupersedes ==
  \A v, w \in Invs :
    (v < w /\ InFlight(v) /\ InFlight(w)) => inv[v].token # cancelToken

\* the previous playAudio call of the invocation (chunk c) and the next one
\* (chunk c + 1), started in this step, with no other call in between or
\* in flight
NextCallStarts(v, c) ==
  /\ c + 1 \in Chunks
  /\ StartsPlay(v, c + 1)
  /\ CallDone(calls[v][c])
  /\ calls[v][c].alone
  /\ ActiveCalls = {}

\* the call started with the declared list, not with a cached candidate
DeclaredOrder(call) == call.k = 1 /\ call.cmd = Players[1]

\* C8 as stated: after a call that succeeded with X the next call runs X first;
\* after a call in which the cached candidate failed the next call attempts
\* the declared list from its first candidate and runs no cached candidate.
C8_AsStated ==
  [][\A v \in Invs, c \in Chunks :
       NextCallStarts(v, c) =>
         /\ calls[v][c].st = "ok" =>
              calls'[v][c + 1].k = 0 /\ calls'[v][c + 1].cmd = calls[v][c].cmd
         /\ calls[v][c].cachedFailed => DeclaredOrder(calls'[v][c + 1])
    ]_vars

\* C8 amended: after a call that succeeded with X the next call runs X first,
\* as the cached candidate, also when X succeeded in the loop after the cached
\* candidate of that call had failed; when the cached candidate returns
\* non-zero the cache is cleared in that step and the same call goes on with
\* the first candidate of the declared list; a call that starts with the cache
\* empty runs the declared list from its first candidate, a call that starts
\* with a cached candidate runs that one first.
C8_PlayerCache ==
  [][\A v \in Invs, c \in Chunks :
       /\ NextCallStarts(v, c) =>
            (calls[v][c].st = "ok" =>
               calls'[v][c + 1].k = 0 /\ calls'[v][c + 1].cmd = calls[v][c].cmd)
       /\ (calls[v][c].st = "cached" /\ calls'[v][c].st \notin {"cached", "ok"}) =>
            /\ lastWorkingPlayer' = NoPlayer
            /\ calls'[v][c].cachedFailed
            /\ DeclaredOrder(calls'[v][c])
       /\ StartsPlay(v, c) =>
            IF lastWorkingPlayer = NoPlayer
              THEN DeclaredOrder(calls'[v][c])
              ELSE calls'[v][c].k = 0 /\ calls'[v][c].cmd = lastWorkingPlayer
    ]_vars

\* the second call of an invocation runs the last declared candidate first,
\* as the cached one
C8_Witness ==
  \E v \in Invs :
    /\ calls[v][1].st = "cached"
    /\ calls[v][1].cmd = Players[NumPlayers]
    /\ calls[v][1].alone

\* C9: a playAudio call that rejects because every candidate returned non-zero
\* has attempted every candidate of the platform list in declared order and
\* names them all; unless some player returned 0 while the call was in flight,
\* the cache is empty when it rejects; and the invocation that awaited it
\* rejects with unlink called on the file of the chunk.
C9_AllPlayersFail ==
  /\ [](\A v \in Invs, c \in Chunks :
          /\ calls[v][c].st = "failed" => calls[v][c].errors = Players
          /\ calls[v][c].st = "loop" =>
               calls[v][c].errors = SubSeq(Players, 1, calls[v][c].k - 1))
  /\ [][\A v \in Invs, c \in Chunks :
          /\ (calls[v][c].st # "failed" /\ calls'[v][c].st = "failed") =>
               /\ calls'[v][c].errors = Players
               /\ ~calls[v][c].sawZero => lastWorkingPlayer' = NoPlayer
          /\ (Ends(v) /\ inv[v].pc = "awaitPlay" /\ inv[v].i = c
                /\ calls[v][c].st = "failed") =>
               /\ inv'[v].result = "rejected"
               /\ delAttempts'[v][c] = 1]_vars

\* a call whose cached candidate failed, and then every candidate of the list
C9_Witness ==
  \E v \in Invs, c \in Chunks :
    /\ calls[v][c].st = "failed"
    /\ calls[v][c].cachedFailed
    /\ ~calls[v][c].sawZero
    /\ lastWorkingPlayer = NoPlayer

\* C10: a candidate that cannot be started counts as a failed candidate and
\* the call goes on: no playAudio call is ended by a spawn failure.
C10_SpawnFailureIsFailure ==
  \A v \in Invs, c \in Chunks : calls[v][c].st # "spawnError"

\* the awaited generation or playback of invocation v failed for a reason of
\* its own: a player call failed, the in-process generation threw, or the
\* handle of a live pool rejected
OwnFailure(v) ==
  \/ /\ inv[v].pc = "awaitPlay"
     /\ calls[v][inv[v].i].st \in {"failed", "spawnError"}
  \/ /\ inv[v].pc = "awaitGen"
     /\ inv'[v].error = "generation"
  \/ /\ inv[v].pc = "awaitTask"
     /\ tasks[v][inv[v].i] = "rejected"
     /\ pools[inv[v].activePool].live

\* C11: an invocation that ends at the readiness wait (backend not ready, no
\* chunks, superseded, disabled), or ends superseded or disabled without a
\* failure of its own, resolves, and starts no playAudio call as it ends.
C11_StopsResolve ==
  [][\A v \in Invs :
       (Ends(v) /\ ~OwnFailure(v)
          /\ (inv[v].pc = "awaitInit" \/ inv[v].token # cancelToken \/ ~enabled))
       => /\ inv'[v].result = "resolved"
          /\ \A c \in Chunks : ~StartsPlay(v, c)]_vars

\* C12: a generation failure for one chunk does not make speakLocal reject: no
\* invocation ends rejected with the generation error, and no file of an
\* invocation that met one stays without an unlink.
C12_GenerationFailureContained ==
  \A v \in Invs :
    inv[v].pc = "done" =>
      /\ inv[v].error # "generation"
      /\ inv[v].result = "rejected" =>
           \A c \in Chunks : fileState[v][c] # "none" => delAttempts[v][c] >= 1

\* the pools that were created and not shut down
LivePools == {p \in PoolIds : pools[p].created /\ pools[p].live}

\* C13: at every moment at most one pool is live, whatever the interleaving of
\* initLocalTts, speakLocal, cancelLocalSpeak and the readiness callbacks, the
\* callback of a pool already shut down included.
C13_OneLivePool == Cardinality(LivePools) <= 1

\* the readiness of the first pool was rejected after it was shut down and
\* the second pool was created: the callback cleared the reference to the
\* second pool, which is live and still loading
C13_Witness ==
  /\ pools[1].created /\ ~pools[1].live /\ pools[1].ready = "rejected"
  /\ pools[2].created /\ pools[2].live /\ pools[2].ready = "pending"
  /\ pool = NoPool

\* the step in which invocation v enqueues its chunks (lines 170-173)
Enqueues(v) == inv[v].pc = "awaitInit" /\ inv'[v].pc = "awaitTask"

\* C14: speakLocal enqueues only on a pool that is live and whose own
\* readiness signal resolved; and no invocation that initLocalTts told the
\* backend is ready ends, without audio, because it has no pool to use.
C14_EnqueueOnReadyPool ==
  [][\A v \in Invs :
       /\ Enqueues(v) =>
            /\ pools[inv'[v].activePool].live
            /\ pools[inv'[v].activePool].ready = "resolved"
       /\ Ends(v) => inv'[v].exit # "noPool"]_vars

\* the argument of splitText without the white space around it
Trimmed == Trim(split.text)

\* str is one segment: characters other than . ! ? and newline, at least one,
\* then any number of characters . ! ? and newline, and nothing after them
OneSegment(str) ==
  LET a == Lead(str, Plain)
  IN a >= 1 /\ a + Lead(Drop(str, a), Stop) = Len(str)

\* the words of the chunks, in order
RECURSIVE ChunkWords(_)
ChunkWords(chunks) ==
  IF chunks = <<>> THEN <<>> ELSE Words(chunks[1]) \o ChunkWords(Tail(chunks))

\* C15 as stated, for the texts speakLocal passes (trimmed, not empty): for a
\* text at most the limit long, splitText returns exactly one chunk, the text.
C15_AsStated ==
  (split.done /\ split.text # <<>> /\ split.text = Trimmed
     /\ StrLen(Trimmed) <= maxLength)
  => split.chunks = <<Trimmed>>

\* C15 amended: for a text whose trimmed form is one segment of length at most
\* the limit, splitText returns exactly one chunk, the trimmed text.
C15_OneSegmentOneChunk ==
  (split.done /\ OneSegment(Trimmed) /\ StrLen(Trimmed) <= maxLength)
  => split.chunks = <<Trimmed>>

\* a text with white space around one segment of exactly the limit
C15_Witness ==
  /\ split.done
  /\ split.text # Trimmed
  /\ OneSegment(Trimmed)
  /\ StrLen(Trimmed) = maxLength
  /\ Len(Words(Trimmed)) >= 2
  /\ split.chunks = <<Trimmed>>

\* C16, for the texts speakLocal passes (trimmed): the words of the chunks, in
\* order, are the words of the text: none is dropped, altered or duplicated.
C16_WordsKept ==
  (split.done /\ split.text = Trimmed)
  => ChunkWords(split.chunks) = Words(split.text)

\* C17: every chunk is non-empty and at most the limit long, except a chunk
\* that is one single word longer than the limit.
C17_ChunksBounded ==
  split.done =>
    \A j \in 1..Len(split.chunks) :
      LET chunk == split.chunks[j]
      IN /\ chunk # <<>>
         /\ StrLen(chunk) >= 1
         /\ \/ StrLen(chunk) <= maxLength
            \/ Len(Words(chunk)) = 1 /\ Words(chunk) = <<chunk>>

\* a part longer than the limit was repacked: one chunk of several words, and
\* one chunk that is a single word longer than the limit
C17_Witness ==
  /\ split.done
  /\ \E j \in 1..Len(split.chunks) : StrLen(split.chunks[j]) > maxLength
  /\ \E j \in 1..Len(split.chunks) :
       /\ Len(Words(split.chunks[j])) >= 2
       /\ Len(Parts(split.text)) = 1

\* C18: cleanupFiles never raises: whatever the list of paths and whichever
\* deletions fail (a path deleted by an earlier cleanup of the same list
\* included), a delete is attempted for every entry of the list in every call,
\* and the call resolves, after every delete has settled; so does a second
\* call on the same list.
C18_CleanupNeverRaises ==
  /\ cleanup.result # "rejected"
  /\ \A i \in 1..Len(cleanup.files) : cleanup.attempts[i] = cleanup.calls
  /\ (cleanup.pc = "returned" /\ cleanup.files # <<>>) =>
       /\ cleanup.result = "resolved"
       /\ \A i \in 1..Len(cleanup.files) : cleanup.settled[i] = "fulfilled"

\* the second cleanup of a list has resolved; a deletion failed on a file that
\* exists, and deletions failed on files the first cleanup had deleted
C18_Witness ==
  /\ cleanup.calls = 2 /\ cleanup.pc = "returned" /\ cleanup.result = "resolved"
  /\ Len(cleanup.files) >= 2
  /\ cleanup.disk # {}
  /\ cleanup.deleted # {}
  /\ cleanup.errors >= 3

\* C19: a playAudio call whose candidates all returned non-zero rejects with
\* the same all-players-failed error, naming every candidate, whether the
\* client is absent, has no tui, or has a showToast that resolves, rejects or
\* throws; with a client that has a tui, showToast is called exactly once,
\* after the last candidate failed and before the rejection; it is not called
\* while candidates are tried or when one succeeded.
C19_ToastThenSameFailure ==
  /\ play.st = "failed" =>
       /\ play.result = "rejected" /\ play.error = "allFailed"
       /\ play.errors = Players
       /\ play.toasts = IF HasTui(play.client) THEN 1 ELSE 0
  /\ play.st = "toast" =>
       /\ HasTui(play.client) /\ play.toasts = 1
       /\ play.errors = Players /\ play.result = "none"
  /\ play.st \in {"cached", "loop", "ok"} =>
       play.toasts = 0 /\ play.error = "none"

\* the cached candidate and then every candidate failed, showToast rejected,
\* and the call has rejected
C19_Witness ==
  /\ play.st = "failed" /\ play.client = "rejects"
  /\ play.cachedFailed
  /\ play.toasts = 1 /\ play.error = "allFailed"

\* C20: with speakOn = "idle", every call of speak was made in response to a
\* session.idle event: none by message.updated, a tts command or
\* command.executed.
C20_IdleSpeaksOnlyOnIdle ==
  plugin.speakOn = "idle" =>
    \A s \in plugin.speaks : s.by = "session.idle"

\* C21: every speakLocal call in flight eventually completes, whatever the
\* caller cancels, disables or enables meanwhile, given that initialisation
\* settles, every handle settles and every player process exits.
C21_SpeakCompletes ==
  \A v \in Invs : InFlight(v) ~> inv[v].pc = "done"

\* the pool was shut down while the invocation waits for a chunk
C21_Witness ==
  \E v \in Invs :
    /\ inv[v].pc = "awaitTask"
    /\ inv[v].token # cancelToken
    /\ ~pools[inv[v].activePool].live
    /\ tasks[v][inv[v].i] = "pending"

\* C22: with maxWorkers <= 0 no pool is ever created or referenced and nothing
\* is enqueued; an invocation generates in process, one chunk at a time, and a
\* generate call for chunk i is in flight only when the playAudio calls for
\* the chunks before i have settled and none was started for i or later.
C22_DirectModeNoPool ==
  maxWorkers <= 0 =>
    /\ pool = NoPool /\ poolInit = NoPool /\ ~poolReady
    /\ \A p \in PoolIds : ~pools[p].created
    /\ \A v \in Invs :
         /\ inv[v].mode # "pool" /\ inv[v].pc # "awaitTask"
         /\ inv[v].activePool = NoPool
         /\ \A c \in Chunks : tasks[v][c] = "none"
         /\ inv[v].pc = "awaitGen" =>
              \A c \in Chunks :
                IF c < inv[v].i THEN CallDone(calls[v][c])
                                ELSE calls[v][c].st = "none"

\* the second chunk is being generated after the first was played
C22_Witness ==
  /\ maxWorkers <= 0
  /\ \E v \in Invs :
       /\ inv[v].pc = "awaitGen" /\ inv[v].i = 1
       /\ calls[v][0].st = "ok"

\* the step in which invocation v starts to wait for the result of a chunk
StartsWait(v) ==
  /\ inv'[v].pc \in {"awaitTask", "awaitGen"}
  /\ inv'[v].pc # inv[v].pc

\* C23: an invocation starts a playAudio call, and starts to wait for the
\* result of a chunk, only at a moment when config.enabled is true and the
\* shared token is the one it captured; and when it resumes in its loop at a
\* moment when one of the two fails, it stops.
C23_ChecksBeforeWaitAndPlay ==
  [][\A v \in Invs :
       /\ (StartsWait(v) \/ \E c \in Chunks : StartsPlay(v, c))
            => (enabled /\ inv[v].token = cancelToken)
       /\ (/\ inv[v].pc \in {"awaitTask", "awaitGen", "awaitPlay"}
           /\ inv'[v].pc # inv[v].pc
           /\ ~(enabled /\ inv[v].token = cancelToken))
            => inv'[v].pc = "done"]_vars

\* config was disabled and enabled again while the invocation waited; the
\* check before the play of the second chunk passed
C23_Witness ==
  \E v \in Invs :
    /\ inv[v].pc = "awaitPlay" /\ inv[v].i = 1
    /\ inv[v].sawDisabled /\ enabled /\ inv[v].token = cancelToken

\* C24: in pool mode an invocation enqueues its chunks 0 .. N-1, each once and
\* in index order, in one step, before it has awaited a result or called
\* playAudio, and only while the shared token is the one it captured; an
\* invocation that resumes from its readiness wait with a changed token
\* enqueues nothing and ends.
C24_EnqueueAllFirst ==
  [][\A v \in Invs :
       /\ Enqueues(v) =>
            /\ inv[v].token = cancelToken
            /\ inv'[v].enq = [j \in 1..inv'[v].n |-> j - 1]
            /\ \A c \in Chunks : tasks'[v][c] = "pending" <=> c < inv'[v].n
            /\ \A c \in Chunks : tasks[v][c] = "none" /\ calls[v][c].st = "none"
       /\ \A c \in Chunks :
            (tasks[v][c] # "pending" /\ tasks'[v][c] = "pending") => Enqueues(v)
       /\ (inv[v].pc = "awaitInit" /\ inv'[v].pc # "awaitInit"
             /\ inv[v].token # cancelToken)
            => /\ inv'[v].pc = "done"
               /\ \A c \in Chunks : tasks'[v][c] = "none"]_vars

\* two chunks are enqueued and none has been awaited to its end
C24_Witness ==
  \E v \in Invs :
    /\ inv[v].pc = "awaitTask" /\ inv[v].i = 0
    /\ inv[v].enq = <<0, 1>>
    /\ tasks[v][0] = "pending" /\ tasks[v][1] = "resolved"

\* the step in which the process call (v, c) waits for exits and runCommand
\* returns its status
AttemptReturns(v, c) ==
  /\ calls[v][c].proc \in {"running", "killed"}
  /\ \/ calls'[v][c].proc = "none"
     \/ calls'[v][c].k # calls[v][c].k

\* C25: when an attempt returns, with status 0 or not, the tracking reference
\* does not refer to its process afterwards; and the reference is always
\* empty or that of a process whose exit runCommand is still waiting for and
\* that was not killed.
C25_TrackedProcessIsRunning ==
  /\ [](currentProcess # NoProc =>
          \E v \in Invs, c \in Chunks :
            currentProcess = ProcOf(v, c) /\ calls[v][c].proc = "running")
  /\ [][\A v \in Invs, c \in Chunks :
          AttemptReturns(v, c) => currentProcess' # ProcOf(v, c)]_vars

\* two calls overlap: the process of the first has exited, the reference is
\* that of the second, which is still running
C25_Witness ==
  \E v, w \in Invs, c, d \in Chunks :
    /\ v # w
    /\ calls[v][c].st = "ok"
    /\ calls[w][d].proc = "running"
    /\ currentProcess = ProcOf(w, d)

\* C26: the shared token never decreases; a step that changes it is a
\* cancelLocalSpeak, which adds exactly one and changes nothing of the
\* invocations, the player calls, the files, the model or the configuration; no
\* step of initLocalTts, speakLocal, playback or cleanup changes it; the token
\* an invocation captured is never above the shared one, and once the two
\* differ they differ for as long as the invocation runs.
C26_TokenOnlyIncreases ==
  /\ [](\A v \in Invs : InFlight(v) => inv[v].token <= cancelToken)
  /\ [][/\ cancelToken' >= cancelToken
        /\ cancelToken' # cancelToken => cancelToken' = cancelToken + 1
        /\ (\/ inv' # inv \/ calls' # calls \/ tasks' # tasks
            \/ fileState' # fileState \/ delAttempts' # delAttempts
            \/ localInit' # localInit \/ localModel' # localModel
            \/ audioVars' # audioVars \/ configVars' # configVars)
             => cancelToken' = cancelToken
        /\ \A v \in Invs :
             (InFlight(v) /\ inv'[v].pc \notin {"idle", "done"}
                /\ inv[v].token # cancelToken)
             => inv'[v].token # cancelToken']_vars

\* the token was bumped before the call captured it and twice since
C26_Witness ==
  /\ InFlight(First) /\ inv[First].token = 1
  /\ cancelToken = 3

\* lines 96-99: isLocalReady()
IsLocalReady == localModel \/ poolReady

\* C27: whenever isLocalReady() returns true, the in-process model is loaded
\* or the module references a pool that is live and whose own readiness
\* signal has resolved.
C27_ReadyMeansUsable ==
  IsLocalReady =>
    \/ localModel
    \/ /\ pool # NoPool
       /\ pools[pool].live
       /\ pools[pool].ready = "resolved"

\* the readiness of the pool initLocalTts created last was rejected while it
\* was the current pool
PoolLoadFailed ==
  /\ maxWorkers > 0
  /\ pool = NoPool /\ poolInit # NoPool
  /\ pools[poolInit].ready = "rejected"

\* initLocalModel() returned null
ModelLoadFailed == maxWorkers <= 0 /\ localInit = "false"

\* C28: once the readiness of the current pool was rejected, or the model load
\* returned null, it stays so whatever is called afterwards, cancelLocalSpeak
\* included: no pool is created, the model is not loaded, and the promise an
\* initLocalTts call returns is the settled one of the failed load, with
\* value false.
C28_LoadFailureSticky ==
  /\ []((PoolLoadFailed \/ ModelLoadFailed) =>
          /\ ~InitBlocked
          /\ InitWait.kind \in {"pool", "local"}
          /\ InitWait.kind = "pool" => InitWait.p = poolInit
          /\ WaitSettled(InitWait) /\ ~WaitValue(InitWait))
  /\ [][/\ PoolLoadFailed =>
             /\ poolInit' = poolInit /\ pool' = NoPool
             /\ \A p \in PoolIds : pools'[p].created = pools[p].created
             /\ pools'[poolInit].ready = "rejected"
        /\ ModelLoadFailed =>
             /\ localInit' = "false" /\ ~localModel']_vars

\* the second pool failed to load, the token was bumped three times, and a
\* speakLocal call ended because initLocalTts returned false
C28_Witness ==
  /\ PoolLoadFailed /\ poolInit = 2
  /\ cancelToken = 3
  /\ inv[First].pc = "done" /\ inv[First].exit = "notReady"

\* C29: when the process a playAudio call waits for was killed by
\* cancelAudioPlayback, the call starts no further player process once the
\* killed process has exited, and the step leaves the player cache as it was.
C29_KillEndsPlayback ==
  [][\A v \in Invs, c \in Chunks :
       (calls[v][c].proc = "killed" /\ AttemptReturns(v, c)) =>
         /\ calls'[v][c].proc # "running"
         /\ lastWorkingPlayer' = lastWorkingPlayer]_vars

\* C30: when the playAudio call an invocation awaits for chunk i has failed
\* with every candidate, the invocation resumes by ending: unlink is called
\* once more on every file it has tracked, it rejects with the playback
\* error, and it calls playAudio for no chunk in that step or later.
C30_PlaybackFailureEndsCall ==
  [][\A v \in Invs :
       /\ (/\ inv[v].pc = "awaitPlay" /\ inv'[v].pc # "awaitPlay"
           /\ calls[v][inv[v].i].st = "failed")
            => /\ inv'[v].pc = "done"
               /\ inv'[v].result = "rejected" /\ inv'[v].error = "playback"
               /\ \A c \in Chunks :
                    delAttempts'[v][c] =
                      delAttempts[v][c] + (IF c \in Range(inv[v].files) THEN 1 ELSE 0)
               /\ inv[v].i \in Range(inv[v].files)
               /\ \A c \in Chunks : ~StartsPlay(v, c)
       /\ inv[v].pc = "done" => \A c \in Chunks : ~StartsPlay(v, c)]_vars

\* the play of chunk 0 failed; the file of chunk 1 was generated and is never
\* played
C30_Witness ==
  \E v \in Invs :
    /\ inv[v].pc = "done" /\ inv[v].error = "playback"
    /\ delAttempts[v][0] = 1 /\ delAttempts[v][1] = 0
    /\ fileState[v][1] = "exists"
    /\ calls[v][1].st = "none"

====
